---- MODULE Spec2Model ----
(***************************************************************************)
(* Length-prefixed framing of redis-scratch: the server (one_request and   *)
(* its accept loop), the framed client (query and its main) and the first  *)
(* client (one write, one read), each over a byte-stream endpoint whose    *)
(* reads and writes may be partial.                                        *)
(***************************************************************************)
EXTENDS Integers, Sequences, FiniteSets, TLC

\* ------------------------------------------------------------------ bounds
MaxConns == 2      \* connections the server accepts in one run
MaxChunk == 2      \* largest short transfer the transport chooses
MaxPartial == 2    \* short transfers the transport chooses per endpoint

\* --------------------------------------------------------------- constants
kMaxMsg == 4096

Procs == {"srv", "cli"}
Endpoints == {"srv", "cli", "old"}
Scenarios == {"server", "client", "legacy"}

Min(a, b) == IF a < b THEN a ELSE b
NoMsg == <<-1>>

\* binary.LittleEndian.PutUint32
PutUint32BigEndian(n) ==
  <<(n \div 16777216) % 256, (n \div 65536) % 256, (n \div 256) % 256, n % 256>>
PutUint32(n) ==
  <<n % 256, (n \div 256) % 256, (n \div 65536) % 256, (n \div 16777216) % 256>>

\* binary.LittleEndian.Uint32: the unsigned 32-bit value hi * 2^16 + lo, kept
\* in two 16-bit halves (2^32 - 1 is no integer of the checker)
Uint32BigEndian(b) == [lo |-> b[4] + 256 * b[3], hi |-> b[2] + 256 * b[1]]
Uint32(b) == [lo |-> b[1] + 256 * b[2], hi |-> b[3] + 256 * b[4]]

\* int(length)
ToInt(u) == u.hi * 65536 + u.lo

\* no header decoded yet
NoLen == [lo |-> -1, hi |-> 0]

\* wbuf := make([]byte, 4+length); PutUint32(wbuf[:4], length); copy(wbuf[4:], m)
Frame(m) == PutUint32(Len(m)) \o m

PING == <<80, 73, 78, 71>>
\* []byte("Hello world!!")
reply == <<72, 101, 108, 108, 111, 32, 119, 111, 114, 108, 100, 33, 33>>
\* []byte("Hello World")
HelloWorld == <<72, 101, 108, 108, 111, 32, 87, 111, 114, 108, 100>>
LongText(n) == [i \in 1..n |-> 65 + (i % 26)]

\* the texts query is called with (main passes "PING")
Texts == {<< >>, PING, LongText(kMaxMsg), LongText(kMaxMsg + 1)}

\* the messages a peer may have framed
Messages == {<< >>, PING, reply, LongText(kMaxMsg)}

\* what a peer other than this repository's programs puts on the stream
Streams ==
  {Frame(m) : m \in Messages}
    \cup {Frame(PING) \o Frame(PING),          \* a second frame follows
          Frame(reply) \o <<7, 7>>,            \* stray bytes follow
          PutUint32(kMaxMsg + 1) \o <<9, 9>>,  \* declared length 4097
          <<255, 255, 255, 255>>,              \* declared length 2^32-1
          PutUint32(10),                       \* prefix only
          <<4, 0>>,                            \* half a prefix
          << >>}

\* if length > kMaxMsg  (one_request), if replyLen > kMaxMsg (query)
TooLongBuf(l) == l.hi > 0 \/ l.lo > 4 + kMaxMsg
TooLong(l) == l.hi > 0 \/ l.lo > kMaxMsg

\* if length > kMaxMsg at the head of query
TextUnchecked(n) == FALSE
TextTooLong(n) == n > kMaxMsg

\* len(buf[offset:len]): the room handed to syscall.Read; blen is len(buf)
ReadRoomOpen(off, ln, blen) == blen - off
ReadRoom(off, ln, blen) == ln - off

\* len(buf[offset:total]) handed to syscall.Write
WriteRoom(off, tot) == tot - off

\* `for len > 0 { ... buf[offset:len]`: the loop test, then the slice
\* expression, which panics when offset > len
LoopHeadDoWhile(off, ln) ==
  IF ln > 0 \/ off = 0 THEN (IF off > ln THEN "panic" ELSE "call") ELSE "nil"
LoopHead(off, ln) ==
  IF ln > 0 THEN (IF off > ln THEN "panic" ELSE "call") ELSE "nil"

VARIABLES
  run,       \* which programs the run starts
  pc,        \* each program's position
  rbuf,      \* receive buffer of the exchange (RbufSize bytes, see At)
  offset,    \* read_full's offset
  len,       \* read_full's len
  wbuf,      \* buffer handed to write_full
  woffset,   \* write_full's offset
  total,     \* write_full's total
  length,    \* decoded header (length / replyLen), NoLen before
  text,      \* query's text
  ret,       \* what one_request / query returned
  log,       \* lines the exchange printed
  msg,       \* message body the decode produced
  rcalls,    \* syscall.Read calls of the exchange: slice bounds and result
  wcalls,    \* syscall.Write calls of the exchange
  wire,      \* bytes the peer has put on the stream towards an endpoint
  inq,       \* bytes delivered to an endpoint and not yet read
  eof,       \* the peer has closed its end
  sent,      \* bytes the endpoint accepted
  partials,  \* short transfers chosen by the transport so far
  fault,     \* the transport reported an error
  closes,    \* syscall.Close calls on the endpoint
  conns,     \* connections accepted
  backlog,   \* the client waits to be accepted
  linked,    \* the server's endpoint is the client's connection
  lpc,       \* the first client's position
  lgot       \* what the first client printed

locals == <<pc, rbuf, offset, len, wbuf, woffset, total, length, text, ret,
            log, msg, rcalls, wcalls>>
net == <<wire, inq, eof, sent, partials, fault, closes>>
vars == <<run, locals, net, conns, backlog, linked, lpc, lgot>>

\* ------------------------------------------------- a program's own state
Cur(p) ==
  [pc |-> pc[p], rbuf |-> rbuf[p], offset |-> offset[p], len |-> len[p],
   wbuf |-> wbuf[p], woffset |-> woffset[p], total |-> total[p],
   length |-> length[p], text |-> text[p], ret |-> ret[p], log |-> log[p],
   msg |-> msg[p], rcalls |-> rcalls[p], wcalls |-> wcalls[p]]

Set(p, l) ==
  /\ pc' = [pc EXCEPT ![p] = l.pc]
  /\ rbuf' = [rbuf EXCEPT ![p] = l.rbuf]
  /\ offset' = [offset EXCEPT ![p] = l.offset]
  /\ len' = [len EXCEPT ![p] = l.len]
  /\ wbuf' = [wbuf EXCEPT ![p] = l.wbuf]
  /\ woffset' = [woffset EXCEPT ![p] = l.woffset]
  /\ total' = [total EXCEPT ![p] = l.total]
  /\ length' = [length EXCEPT ![p] = l.length]
  /\ text' = [text EXCEPT ![p] = l.text]
  /\ ret' = [ret EXCEPT ![p] = l.ret]
  /\ log' = [log EXCEPT ![p] = l.log]
  /\ msg' = [msg EXCEPT ![p] = l.msg]
  /\ rcalls' = [rcalls EXCEPT ![p] = l.rcalls]
  /\ wcalls' = [wcalls EXCEPT ![p] = l.wcalls]

Fresh(start) ==
  [pc |-> start, rbuf |-> << >>, offset |-> 0, len |-> 0, wbuf |-> << >>,
   woffset |-> 0, total |-> 0, length |-> NoLen, text |-> << >>,
   ret |-> "running", log |-> {}, msg |-> NoMsg, rcalls |-> << >>,
   wcalls |-> << >>]

Init ==
  /\ run \in Scenarios
  /\ pc = [p \in Procs |-> IF p = "srv" THEN "init" ELSE "start"]
  /\ rbuf = [p \in Procs |-> << >>]
  /\ offset = [p \in Procs |-> 0]
  /\ len = [p \in Procs |-> 0]
  /\ wbuf = [p \in Procs |-> << >>]
  /\ woffset = [p \in Procs |-> 0]
  /\ total = [p \in Procs |-> 0]
  /\ length = [p \in Procs |-> NoLen]
  /\ text = [p \in Procs |-> << >>]
  /\ ret = [p \in Procs |-> "running"]
  /\ log = [p \in Procs |-> {}]
  /\ msg = [p \in Procs |-> NoMsg]
  /\ rcalls = [p \in Procs |-> << >>]
  /\ wcalls = [p \in Procs |-> << >>]
  /\ wire = [e \in Endpoints |-> << >>]
  /\ inq = [e \in Endpoints |-> << >>]
  /\ eof = [e \in Endpoints |-> FALSE]
  /\ sent = [e \in Endpoints |-> << >>]
  /\ partials = [e \in Endpoints |-> 0]
  /\ fault = [e \in Endpoints |-> FALSE]
  /\ closes = [e \in Endpoints |-> 0]
  /\ conns = 0
  /\ backlog = FALSE
  /\ linked = FALSE
  /\ lpc = "start"
  /\ lgot = NoMsg


\* --------------------------------------------------------------- transport
Other(p) == IF p = "srv" THEN "cli" ELSE "srv"

\* the counts one read or write call may transfer: all it can, or (while the
\* transport still splits) a short count
Choices(room, avail, e) ==
  {Min(room, avail)}
    \cup (IF partials[e] < MaxPartial
          THEN {n \in 1..MaxChunk : n < Min(room, avail)}
          ELSE {})

\* A buffer that make() has zeroed is kept as its bytes up to the last one
\* stored; the bytes behind them are 0.
At(buf, i) == IF i <= Len(buf) THEN buf[i] ELSE 0

\* buf[a:b]
Slice(buf, a, b) ==
  IF b <= Len(buf) THEN SubSeq(buf, a + 1, b)
  ELSE [i \in 1..(b - a) |-> At(buf, a + i)]

\* copy of d into buf[at:]
Store(buf, at, d) ==
  IF at <= Len(buf)
  THEN SubSeq(buf, 1, at) \o d \o SubSeq(buf, at + Len(d) + 1, Len(buf))
  ELSE [i \in 1..(at + Len(d)) |->
          IF i > at THEN d[i - at] ELSE At(buf, i)]

Drop(q, n) == SubSeq(q, n + 1, Len(q))

\* ------------------------------------------------ one_request and query
\* make([]byte, 4+kMaxMsg) in one_request, make([]byte, 4+kMaxMsg+1) in query
RbufSize(p) == IF p = "srv" THEN 4 + kMaxMsg ELSE 4 + kMaxMsg + 1

\* where in rbuf the slice handed to read_full starts
BaseZero(l) == 0
Base(l) == IF l.pc = "hdr" THEN 0 ELSE 4

\* len(buf) of the slice handed to read_full: rbuf, rbuf[:4], rbuf[4:4+length]
BufLen(p, l) ==
  IF l.pc = "hdr" THEN (IF p = "srv" THEN 4 + kMaxMsg ELSE 4) ELSE ToInt(l.length)

\* the exchange after the body has been read
AfterBody(p, l) ==
  LET body == Slice(l.rbuf, 4, 4 + ToInt(l.length)) IN
  IF p = "srv"
  THEN \* "client says", then write_full(connfd, wbuf) with the framed reply
       [l EXCEPT !.msg = body, !.log = @ \cup {"says"},
                 !.wbuf = Frame(reply), !.woffset = 0,
                 !.total = Len(Frame(reply)), !.pc = "write"]
  ELSE \* "server says", return nil
       [l EXCEPT !.msg = body, !.log = @ \cup {"says"}, !.ret = "nil",
                 !.pc = "close"]

\* the exchange after read_full has returned nil for the 4 header bytes
AfterHdr(p, l) ==
  LET n == Uint32(Slice(l.rbuf, 0, 4)) IN
  IF TooLong(n)
  THEN [l EXCEPT !.length = n, !.log = @ \cup {"too long"},
                 !.ret = "toolong", !.pc = "close"]
  ELSE LET b == [l EXCEPT !.length = n, !.offset = 0, !.len = ToInt(n),
                          !.pc = "body"]
       IN IF LoopHead(0, ToInt(n)) = "nil" THEN AfterBody(p, b) ELSE b

\* the exchange after write_full has returned nil
AfterWriteKeepAlive(p, l) ==
  [l EXCEPT !.rbuf = << >>, !.offset = 0, !.len = 4, !.pc = "hdr"]
AfterWrite(p, l) ==
  IF p = "srv"
  THEN [l EXCEPT !.ret = "nil", !.pc = "close"]
  ELSE [l EXCEPT !.rbuf = << >>, !.offset = 0, !.len = 4, !.pc = "hdr"]

\* read_full returned an error: what the caller prints and returns
ReadErrReplies(p, l, kind) ==
  IF p = "srv"
  THEN [l EXCEPT !.wbuf = Frame(reply), !.woffset = 0,
                 !.total = Len(Frame(reply)), !.pc = "write"]
  ELSE [l EXCEPT !.ret = kind, !.pc = "close"]
ReadErr(p, l, kind) ==
  [l EXCEPT !.ret = kind, !.pc = "close",
            !.log = IF l.pc = "body" THEN @ \cup {"read() error"}
                    ELSE IF p = "srv" THEN @ \cup {"Error reading from socket"}
                    ELSE @]

\* write_full returned an error: what the caller prints and returns
WriteErrRetry(p, l, kind) == [l EXCEPT !.pc = "write"]
WriteErr(p, l, kind) ==
  [l EXCEPT !.ret = kind, !.pc = "close",
            !.log = IF p = "srv" THEN @ \cup {"write_all() error"} ELSE @]

\* read_full after syscall.Read has returned n > 0 bytes d
ReadGotNoProgress(p, l, d) ==
  LET n == Len(d)
      m == [l EXCEPT !.rbuf = Store(l.rbuf, Base(l) + l.offset, d),
                     !.rcalls = Append(@, [at |-> l.pc, lo |-> l.offset,
                                           hi |-> l.len, n |-> n])]
  IN m
ReadGot(p, l, d) ==
  LET n == Len(d)
      m == [l EXCEPT !.rbuf = Store(l.rbuf, Base(l) + l.offset, d),
                     !.offset = @ + n, !.len = @ - n,
                     !.rcalls = Append(@, [at |-> l.pc, lo |-> l.offset,
                                           hi |-> l.len, n |-> n])]
      head == LoopHead(m.offset, m.len)
  IN IF head = "call" THEN m
     ELSE IF head = "panic" THEN [m EXCEPT !.pc = "crashed"]
     ELSE IF l.pc = "hdr" THEN AfterHdr(p, m) ELSE AfterBody(p, m)

\* write_full after syscall.Write has accepted n > 0 bytes
WriteGot(p, l, n) ==
  LET m == [l EXCEPT !.woffset = @ + n, !.total = @ - n,
                     !.wcalls = Append(@, [lo |-> l.woffset, hi |-> l.total,
                                           n |-> n])]
      head == LoopHead(m.woffset, m.total)
  IN IF head = "call" THEN m
     ELSE IF head = "panic" THEN [m EXCEPT !.pc = "crashed"]
     ELSE AfterWrite(p, m)

\* a panic ends the process: the peer of its connection sees the end
Gone(p, l) ==
  /\ eof' = IF l.pc = "crashed" /\ run = "e2e"
               /\ (linked \/ (p = "srv" /\ backlog))
            THEN [eof EXCEPT ![Other(p)] = TRUE] ELSE eof
  /\ linked' = IF l.pc = "crashed" /\ p = "srv" THEN FALSE ELSE linked
  /\ backlog' = IF l.pc = "crashed" /\ p = "srv" THEN FALSE ELSE backlog

\* ------------------------------------------------------------ read_full
\* one syscall.Read of read_full that returns bytes
Read(p) ==
  /\ pc[p] \in {"hdr", "body"}
  /\ LET l == Cur(p)
         room == ReadRoom(offset[p], len[p], BufLen(p, l))
     IN /\ room > 0
        /\ inq[p] # << >>
        /\ \E n \in Choices(room, Len(inq[p]), p) :
             LET m == ReadGot(p, l, SubSeq(inq[p], 1, n)) IN
             /\ Set(p, m)
             /\ inq' = [inq EXCEPT ![p] = Drop(@, n)]
             /\ partials' = [partials EXCEPT ![p] =
                               IF n < Min(room, Len(inq[p])) THEN @ + 1 ELSE @]
             /\ Gone(p, m)
  /\ UNCHANGED <<run, wire, sent, fault, closes, conns, lpc, lgot>>

\* one syscall.Read that returns 0: the slice is empty, or the peer has
\* closed and nothing is left
ReadZero(p) ==
  /\ pc[p] \in {"hdr", "body"}
  /\ LET l == Cur(p)
         room == ReadRoom(offset[p], len[p], BufLen(p, l))
     IN /\ room = 0 \/ (room > 0 /\ inq[p] = << >> /\ eof[p])
        /\ Set(p, ReadErr(p, [l EXCEPT !.rcalls =
                     Append(@, [at |-> l.pc, lo |-> l.offset, hi |-> l.len,
                                n |-> 0])],
                     "eof"))
  /\ UNCHANGED <<run, net, conns, backlog, linked, lpc, lgot>>

\* one syscall.Read that returns an error
ReadFault(p) ==
  /\ pc[p] \in {"hdr", "body"}
  /\ LET l == Cur(p) IN
       Set(p, ReadErr(p, [l EXCEPT !.rcalls =
                 Append(@, [at |-> l.pc, lo |-> l.offset, hi |-> l.len,
                            n |-> -1])],
                 "read"))
  /\ fault' = [fault EXCEPT ![p] = TRUE]
  /\ UNCHANGED <<run, wire, inq, eof, sent, partials, closes, conns, backlog,
                 linked, lpc, lgot>>

\* ----------------------------------------------------------- write_full
\* one syscall.Write of write_full that accepts bytes
Write(p) ==
  /\ pc[p] = "write"
  /\ LET l == Cur(p)
         room == WriteRoom(woffset[p], total[p])
     IN /\ room > 0
        /\ \E n \in Choices(room, room, p) :
             LET m == WriteGot(p, l, n)
                 d == SubSeq(wbuf[p], woffset[p] + 1, woffset[p] + n)
             IN /\ Set(p, m)
                /\ sent' = [sent EXCEPT ![p] = @ \o d]
                /\ inq' = IF run = "e2e" /\ linked
                          THEN [inq EXCEPT ![Other(p)] = @ \o d] ELSE inq
                /\ wire' = IF run = "e2e" /\ linked
                           THEN [wire EXCEPT ![Other(p)] = @ \o d] ELSE wire
                /\ partials' = [partials EXCEPT ![p] =
                                  IF n < room THEN @ + 1 ELSE @]
                /\ Gone(p, m)
  /\ UNCHANGED <<run, fault, closes, conns, lpc, lgot>>

\* one syscall.Write that returns 0: the slice is empty
WriteZero(p) ==
  /\ pc[p] = "write"
  /\ WriteRoom(woffset[p], total[p]) = 0
  /\ LET l == Cur(p) IN
       Set(p, WriteErr(p, [l EXCEPT !.wcalls =
                 Append(@, [lo |-> l.woffset, hi |-> l.total, n |-> 0])],
                 "write0"))
  /\ UNCHANGED <<run, net, conns, backlog, linked, lpc, lgot>>

\* one syscall.Write that returns an error
WriteFault(p) ==
  /\ pc[p] = "write"
  /\ LET l == Cur(p) IN
       Set(p, WriteErr(p, [l EXCEPT !.wcalls =
                 Append(@, [lo |-> l.woffset, hi |-> l.total, n |-> -1])],
                 "write"))
  /\ fault' = [fault EXCEPT ![p] = TRUE]
  /\ UNCHANGED <<run, wire, inq, eof, sent, partials, closes, conns, backlog,
                 linked, lpc, lgot>>


\* ------------------------------------------------------- the server's main
\* socket, setsockopt, bind, listen succeed
Listen ==
  /\ run \in {"server", "e2e"}
  /\ pc["srv"] = "init"
  /\ pc' = [pc EXCEPT !["srv"] = "accept"]
  /\ UNCHANGED <<run, rbuf, offset, len, wbuf, woffset, total, length, text,
                 ret, log, msg, rcalls, wcalls, net, conns, backlog, linked,
                 lpc, lgot>>

\* one of them fails, or syscall.Accept does: main prints and returns
ServerExit ==
  /\ run \in {"server", "e2e"}
  /\ pc["srv"] \in {"init", "accept"}
  /\ pc' = [pc EXCEPT !["srv"] = "exited"]
  /\ eof' = IF backlog THEN [eof EXCEPT !["cli"] = TRUE] ELSE eof
  /\ backlog' = FALSE
  /\ UNCHANGED <<run, rbuf, offset, len, wbuf, woffset, total, length, text,
                 ret, log, msg, rcalls, wcalls, wire, inq, sent, partials, fault,
                 closes, conns, linked, lpc, lgot>>

\* one_request(connfd) up to its first syscall.Read
StartRequestStale ==
  [Fresh("hdr") EXCEPT !.rbuf = << >>, !.offset = 0, !.len = 4,
                       !.msg = msg["srv"], !.log = log["srv"]]
StartRequest ==
  [Fresh("hdr") EXCEPT !.rbuf = << >>, !.offset = 0, !.len = 4]

\* syscall.Accept returns the connection of a peer that has put s on the
\* stream and, if e, has closed its end behind it
Accept ==
  /\ run = "server"
  /\ pc["srv"] = "accept"
  /\ conns < MaxConns
  /\ \E s \in Streams, e \in BOOLEAN :
       /\ inq' = [inq EXCEPT !["srv"] = s]
       /\ wire' = [wire EXCEPT !["srv"] = s]
       /\ eof' = [eof EXCEPT !["srv"] = e]
  /\ Set("srv", StartRequest)
  /\ sent' = [sent EXCEPT !["srv"] = << >>]
  /\ partials' = [partials EXCEPT !["srv"] = 0]
  /\ fault' = [fault EXCEPT !["srv"] = FALSE]
  /\ closes' = [closes EXCEPT !["srv"] = 0]
  /\ conns' = conns + 1
  /\ UNCHANGED <<run, backlog, linked, lpc, lgot>>

\* syscall.Accept returns the connection of this repository's client
AcceptClient ==
  /\ run = "e2e"
  /\ pc["srv"] = "accept"
  /\ conns < MaxConns
  /\ backlog
  /\ inq' = [inq EXCEPT !["srv"] = sent["cli"]]
  /\ wire' = [wire EXCEPT !["srv"] = sent["cli"]]
  /\ eof' = [eof EXCEPT !["srv"] = pc["cli"] \in {"done", "crashed"}]
  /\ Set("srv", StartRequest)
  /\ sent' = [sent EXCEPT !["srv"] = << >>]
  /\ partials' = [partials EXCEPT !["srv"] = 0]
  /\ fault' = [fault EXCEPT !["srv"] = FALSE]
  /\ closes' = [closes EXCEPT !["srv"] = 0]
  /\ conns' = conns + 1
  /\ backlog' = FALSE
  /\ linked' = TRUE
  /\ UNCHANGED <<run, lpc, lgot>>

\* syscall.Close(connfd) after one_request, then the next turn of the loop
CloseConnLeak ==
  /\ pc["srv"] = "close"
  /\ pc' = [pc EXCEPT !["srv"] = "accept"]
  /\ UNCHANGED <<run, rbuf, offset, len, wbuf, woffset, total, length, text,
                 ret, log, msg, rcalls, wcalls, net, conns, backlog, linked,
                 lpc, lgot>>
CloseConn ==
  /\ pc["srv"] = "close"
  /\ pc' = [pc EXCEPT !["srv"] = "accept"]
  /\ closes' = [closes EXCEPT !["srv"] = @ + 1]
  /\ eof' = IF linked THEN [eof EXCEPT !["cli"] = TRUE] ELSE eof
  /\ linked' = FALSE
  /\ UNCHANGED <<run, rbuf, offset, len, wbuf, woffset, total, length, text,
                 ret, log, msg, rcalls, wcalls, wire, inq, sent, partials, fault,
                 conns, backlog, lpc, lgot>>

\* ------------------------------------------------------- the client's main
\* socket and connect succeed, to a peer that answers with s
Connect ==
  /\ run = "client"
  /\ pc["cli"] = "start"
  /\ pc' = [pc EXCEPT !["cli"] = "query"]
  /\ \E s \in Streams, e \in BOOLEAN :
       /\ inq' = [inq EXCEPT !["cli"] = s]
       /\ wire' = [wire EXCEPT !["cli"] = s]
       /\ eof' = [eof EXCEPT !["cli"] = e]
  /\ UNCHANGED <<run, rbuf, offset, len, wbuf, woffset, total, length, text,
                 ret, log, msg, rcalls, wcalls, sent, partials, fault, closes,
                 conns, backlog, linked, lpc, lgot>>

\* socket and connect succeed, to this repository's listening server
ConnectServer ==
  /\ run = "e2e"
  /\ pc["cli"] = "start"
  /\ pc["srv"] \notin {"init", "exited", "crashed"}
  /\ pc' = [pc EXCEPT !["cli"] = "query"]
  /\ backlog' = TRUE
  /\ UNCHANGED <<run, rbuf, offset, len, wbuf, woffset, total, length, text,
                 ret, log, msg, rcalls, wcalls, net, conns, linked, lpc,
                 lgot>>

\* socket or connect fails: main prints and returns
ConnectFail ==
  /\ run \in {"client", "e2e"}
  /\ pc["cli"] = "start"
  /\ pc' = [pc EXCEPT !["cli"] = "exited"]
  /\ UNCHANGED <<run, rbuf, offset, len, wbuf, woffset, total, length, text,
                 ret, log, msg, rcalls, wcalls, net, conns, backlog, linked,
                 lpc, lgot>>

\* query(fd, t) up to its first syscall.Write
StartQuery(t) ==
  IF TextTooLong(Len(t))
  THEN [Fresh("close") EXCEPT !.text = t, !.ret = "textlong"]
  ELSE [Fresh("write") EXCEPT !.text = t, !.wbuf = Frame(t), !.woffset = 0,
                              !.total = Len(Frame(t))]

Query ==
  /\ pc["cli"] = "query"
  /\ \E t \in Texts : Set("cli", StartQuery(t))
  /\ UNCHANGED <<run, net, conns, backlog, linked, lpc, lgot>>

\* syscall.Close(fd) after query, "Connection closed"
CloseClient ==
  /\ pc["cli"] = "close"
  /\ pc' = [pc EXCEPT !["cli"] = "done"]
  /\ closes' = [closes EXCEPT !["cli"] = @ + 1]
  /\ eof' = IF linked THEN [eof EXCEPT !["srv"] = TRUE] ELSE eof
  /\ UNCHANGED <<run, rbuf, offset, len, wbuf, woffset, total, length, text,
                 ret, log, msg, rcalls, wcalls, wire, inq, sent, partials, fault,
                 conns, backlog, linked, lpc, lgot>>

\* ------------------------------------------- the first client's main
LConnect ==
  /\ run = "legacy"
  /\ lpc = "start"
  /\ lpc' = "write"
  /\ \E s \in Streams \cup {HelloWorld}, e \in BOOLEAN :
       /\ inq' = [inq EXCEPT !["old"] = s]
       /\ wire' = [wire EXCEPT !["old"] = s]
       /\ eof' = [eof EXCEPT !["old"] = e]
  /\ UNCHANGED <<run, locals, sent, partials, fault, closes, conns, backlog,
                 linked, lgot>>

\* socket or connect fails
LConnectFail ==
  /\ run = "legacy"
  /\ lpc = "start"
  /\ lpc' = "exited"
  /\ UNCHANGED <<run, locals, net, conns, backlog, linked, lgot>>

\* _, err = syscall.Write(fd, wbuf): the count is dropped
LWrite ==
  /\ lpc = "write"
  /\ \E n \in Choices(Len(HelloWorld), Len(HelloWorld), "old") :
       /\ sent' = [sent EXCEPT !["old"] = SubSeq(HelloWorld, 1, n)]
       /\ partials' = [partials EXCEPT !["old"] =
                         IF n < Len(HelloWorld) THEN @ + 1 ELSE @]
  /\ lpc' = "read"
  /\ UNCHANGED <<run, locals, wire, inq, eof, fault, closes, conns, backlog,
                 linked, lgot>>

\* n, err := syscall.Read(fd, rbuf) with rbuf of 64 bytes, then the print
LRead ==
  /\ lpc = "read"
  /\ \/ /\ inq["old"] # << >>
        /\ \E n \in Choices(64, Len(inq["old"]), "old") :
             /\ lgot' = SubSeq(inq["old"], 1, n)
             /\ inq' = [inq EXCEPT !["old"] = Drop(@, n)]
             /\ partials' = [partials EXCEPT !["old"] =
                               IF n < Min(64, Len(inq["old"])) THEN @ + 1
                               ELSE @]
     \/ /\ inq["old"] = << >>
        /\ eof["old"]
        /\ lgot' = << >>
        /\ UNCHANGED <<inq, partials>>
  /\ lpc' = "close"
  /\ UNCHANGED <<run, locals, wire, eof, sent, fault, closes, conns, backlog,
                 linked>>

\* the write or the read reports an error: main prints and returns
LFault ==
  /\ lpc \in {"write", "read"}
  /\ lpc' = "failed"
  /\ fault' = [fault EXCEPT !["old"] = TRUE]
  /\ UNCHANGED <<run, locals, wire, inq, eof, sent, partials, closes, conns,
                 backlog, linked, lgot>>

\* syscall.Close(fd), "Connection closed"
LClose ==
  /\ lpc = "close"
  /\ lpc' = "done"
  /\ closes' = [closes EXCEPT !["old"] = @ + 1]
  /\ UNCHANGED <<run, locals, wire, inq, eof, sent, partials, fault, conns,
                 backlog, linked, lgot>>

\* ------------------------------------------------------------ behaviours
\* read_full and write_full, the same text in the server and in the client
Framed ==
  \/ \E p \in Procs : Read(p)
  \/ \E p \in Procs : ReadZero(p)
  \/ \E p \in Procs : ReadFault(p)
  \/ \E p \in Procs : Write(p)
  \/ \E p \in Procs : WriteZero(p)
  \/ \E p \in Procs : WriteFault(p)

\* each program against a peer that is not of this repository
Next ==
  \/ Listen
  \/ ServerExit
  \/ Accept
  \/ CloseConn
  \/ Connect
  \/ ConnectFail
  \/ Query
  \/ CloseClient
  \/ Framed
  \/ LConnect
  \/ LConnectFail
  \/ LWrite
  \/ LRead
  \/ LFault
  \/ LClose

Spec == Init /\ [][Next]_vars

\* the client connected to the server
InitPair ==
  /\ run = "e2e"
  /\ pc = [p \in Procs |-> IF p = "srv" THEN "init" ELSE "start"]
  /\ rbuf = [p \in Procs |-> << >>]
  /\ offset = [p \in Procs |-> 0]
  /\ len = [p \in Procs |-> 0]
  /\ wbuf = [p \in Procs |-> << >>]
  /\ woffset = [p \in Procs |-> 0]
  /\ total = [p \in Procs |-> 0]
  /\ length = [p \in Procs |-> NoLen]
  /\ text = [p \in Procs |-> << >>]
  /\ ret = [p \in Procs |-> "running"]
  /\ log = [p \in Procs |-> {}]
  /\ msg = [p \in Procs |-> NoMsg]
  /\ rcalls = [p \in Procs |-> << >>]
  /\ wcalls = [p \in Procs |-> << >>]
  /\ wire = [e \in Endpoints |-> << >>]
  /\ inq = [e \in Endpoints |-> << >>]
  /\ eof = [e \in Endpoints |-> FALSE]
  /\ sent = [e \in Endpoints |-> << >>]
  /\ partials = [e \in Endpoints |-> 0]
  /\ fault = [e \in Endpoints |-> FALSE]
  /\ closes = [e \in Endpoints |-> 0]
  /\ conns = 0
  /\ backlog = FALSE
  /\ linked = FALSE
  /\ lpc = "start"
  /\ lgot = NoMsg

NextPair ==
  \/ Listen
  \/ ServerExit
  \/ AcceptClient
  \/ CloseConn
  \/ ConnectServer
  \/ ConnectFail
  \/ Query
  \/ CloseClient
  \/ Framed

SpecPair == InitPair /\ [][NextPair]_vars


\* ------------------------------------- the header decode on its own
\* byte values a header is made of: the ends of the range, both sides of
\* the top bit, and the bytes of 4096 and 4097
HeaderBytes == {0, 1, 16, 17, 127, 128, 255}

Headers == {<<a, b, c, d>> : a \in HeaderBytes, b \in HeaderBytes,
                             c \in HeaderBytes, d \in HeaderBytes}

\* read_full has returned nil for the 4 header bytes h, in one_request and
\* in query
InitHeader ==
  /\ run = "header"
  /\ \E h \in Headers :
       /\ rbuf = [p \in Procs |-> h]
       /\ rcalls = [p \in Procs |->
                      <<[at |-> "hdr", lo |-> 0, hi |-> 4, n |-> 4]>>]
       /\ wire = [e \in Endpoints |-> IF e \in Procs THEN h ELSE << >>]
  /\ pc = [p \in Procs |-> "hdr"]
  /\ offset = [p \in Procs |-> 4]
  /\ len = [p \in Procs |-> 0]
  /\ wbuf = [p \in Procs |-> << >>]
  /\ woffset = [p \in Procs |-> 0]
  /\ total = [p \in Procs |-> 0]
  /\ length = [p \in Procs |-> NoLen]
  /\ text = [p \in Procs |-> << >>]
  /\ ret = [p \in Procs |-> "running"]
  /\ log = [p \in Procs |-> {}]
  /\ msg = [p \in Procs |-> NoMsg]
  /\ wcalls = [p \in Procs |-> << >>]
  /\ inq = [e \in Endpoints |-> << >>]
  /\ eof = [e \in Endpoints |-> FALSE]
  /\ sent = [e \in Endpoints |-> << >>]
  /\ partials = [e \in Endpoints |-> 0]
  /\ fault = [e \in Endpoints |-> FALSE]
  /\ closes = [e \in Endpoints |-> 0]
  /\ conns = 1
  /\ backlog = FALSE
  /\ linked = FALSE
  /\ lpc = "start"
  /\ lgot = NoMsg

\* length := binary.LittleEndian.Uint32(rbuf[:4]); if length > kMaxMsg
DecodeHeader(p) ==
  /\ run = "header"
  /\ pc[p] = "hdr"
  /\ LoopHead(offset[p], len[p]) = "nil"
  /\ Set(p, AfterHdr(p, Cur(p)))
  /\ UNCHANGED <<run, net, conns, backlog, linked, lpc, lgot>>

NextHeader == \E p \in Procs : DecodeHeader(p)

SpecHeader == InitHeader /\ [][NextHeader]_vars


\* ------------------------------------------------------------ vocabulary
RECURSIVE Moved(_)
\* bytes the calls of a call history have transferred
Moved(calls) ==
  IF calls = << >> THEN 0
  ELSE (IF calls[Len(calls)].n > 0 THEN calls[Len(calls)].n ELSE 0)
         + Moved(SubSeq(calls, 1, Len(calls) - 1))

\* bytes the exchange has consumed from its endpoint
Consumed(p) == Moved(rcalls[p])

\* the exchange has started and its decode is over
DecodeOver(p) == rcalls[p] # << >> /\ pc[p] \notin {"hdr", "body"}

\* every read that offered room got exactly one byte; none failed
OneBytePerRead(p) ==
  \A i \in DOMAIN rcalls[p] :
    rcalls[p][i].hi > rcalls[p][i].lo => rcalls[p][i].n = 1

\* every write that offered bytes had at least one accepted; none failed
EveryWriteAccepts(p) ==
  \A i \in DOMAIN wcalls[p] :
    wcalls[p][i].hi > wcalls[p][i].lo => wcalls[p][i].n >= 1

\* the value of a decoded header is above 4096
Above4096(u) == u # NoLen /\ (u.hi > 0 \/ u.lo > kMaxMsg)

\* main drops what one_request and query return: `one_request(connfd)`,
\* `query(fd, "PING")`
CallerObserves(p) == FALSE

ErrorLines ==
  {"Error reading from socket", "too long", "read() error",
   "write_all() error"}

\* ------------------------------------------------------------------ claims

\* C1: a frame delivered one byte per read call, with no failure and no
\* early close, is decoded successfully to exactly the original message.
C1_OneByteDelivery ==
  \A p \in Procs : \A m \in Messages :
    (wire[p] = Frame(m) /\ ~fault[p] /\ OneBytePerRead(p) /\ DecodeOver(p))
      => msg[p] = m

\* C2: when every underlying write accepts at least one byte and none
\* fails, write_full returns success and the endpoint has received the
\* whole buffer, each byte once and in order.
C2_WriteFullDelivers ==
  \A p \in Procs :
    (wcalls[p] # << >> /\ pc[p] # "write" /\ EveryWriteAccepts(p))
      => (pc[p] # "crashed" /\ ret[p] \notin {"write", "write0"}
          /\ sent[p] = wbuf[p])

\* C3: a header that decodes to more than 4096 makes the decode fail with
\* the too-long error, and no body byte is read (server and client).
C3_TooLongNoBodyRead ==
  \A p \in Procs :
    Above4096(length[p])
      => /\ ret[p] = "toolong"
         /\ "too long" \in log[p]
         /\ pc[p] \notin {"hdr", "body", "write", "crashed"}
         /\ Consumed(p) = 4
         /\ \A i \in DOMAIN rcalls[p] : rcalls[p][i].at = "hdr"
         /\ inq[p] = Drop(wire[p], 4)
         /\ msg[p] = NoMsg
         /\ (p = "srv" => sent[p] = << >>)

C3_Witness ==
  /\ ret["srv"] = "toolong"
  /\ length["srv"] = [lo |-> kMaxMsg + 1, hi |-> 0]
  /\ inq["srv"] = <<9, 9>>

\* C4: for every message of 0..4096 bytes, decoding the stream that holds
\* its frame (4-byte little-endian length, then the body) yields the message.
C4_RoundTrip ==
  \A p \in Procs : \A m \in Messages :
    (wire[p] = Frame(m) /\ ~fault[p] /\ DecodeOver(p)) => msg[p] = m

\* C5: a successful decode of a frame of declared length L has L <= 4096 and
\* has consumed exactly 4 + L bytes; no decode consumes bytes behind its frame.
C5_ExactConsumption ==
  \A p \in Procs :
    /\ msg[p] # NoMsg =>
         /\ ~Above4096(length[p])
         /\ length[p] # NoLen
         /\ Consumed(p) = 4 + ToInt(length[p])
         /\ msg[p] = SubSeq(wire[p], 5, 4 + ToInt(length[p]))
    /\ Consumed(p) <=
         4 + (IF length[p] = NoLen \/ Above4096(length[p]) THEN 0
              ELSE ToInt(length[p]))
    /\ run # "e2e" => inq[p] = Drop(wire[p], Consumed(p))

C5_Witness ==
  /\ msg["srv"] = PING
  /\ Consumed("srv") = 8
  /\ inq["srv"] = Frame(PING)

\* C6: when the peer closes after a complete 4-byte prefix declaring
\* 1..4096 bytes and before any body byte, the decode fails with the
\* end-of-stream error, yields no message, and the server writes nothing.
C6_PrematureClose ==
  \A p \in Procs :
    (/\ Len(wire[p]) = 4
     /\ ~Above4096(Uint32(wire[p]))
     /\ ToInt(Uint32(wire[p])) >= 1
     /\ eof[p] /\ ~fault[p] /\ DecodeOver(p))
      => /\ ret[p] = "eof"
         /\ msg[p] = NoMsg
         /\ (p = "srv" => sent[p] = << >>)

\* C7: query with a text of more than 4096 bytes returns the too-long error
\* before any read or write; bytes sent and bytes consumed stay as they were.
C7_LongTextNoIO ==
  Len(text["cli"]) > kMaxMsg
    => /\ ret["cli"] = "textlong"
       /\ pc["cli"] \in {"close", "done"}
       /\ rcalls["cli"] = << >>
       /\ wcalls["cli"] = << >>
       /\ sent["cli"] = << >>
       /\ inq["cli"] = wire["cli"]

C7_Witness ==
  /\ Len(text["cli"]) = kMaxMsg + 1
  /\ ret["cli"] = "textlong"
  /\ pc["cli"] = "done"
  /\ wire["cli"] # << >>

\* C8: every connected endpoint is closed exactly once, at the end of its
\* session, on every path.
C8_ClosedExactlyOnce ==
  /\ \A e \in Endpoints : closes[e] <= 1
  /\ (conns > 0 /\ pc["srv"] \in {"accept", "exited", "crashed"})
       => closes["srv"] = 1
  /\ pc["cli"] \in {"done", "crashed"} => closes["cli"] = 1
  /\ lpc \in {"done", "failed"} => closes["old"] = 1

\* C9: no failure of one connection's exchange terminates the server
\* process.
C9_ServerSurvives == pc["srv"] # "crashed"

\* C10: every framing-layer error an exchange returns is observed by the
\* caller or logged.
C10_ErrorsSurfaced ==
  \A p \in Procs :
    ret[p] \notin {"running", "nil"}
      => (CallerObserves(p) \/ log[p] \cap ErrorLines # {})

\* where an exchange stands in its state machine: the client sends its
\* request and then awaits the response; the server awaits the request and
\* then sends the response
Phase(p) ==
  IF ret[p] \notin {"running", "nil"} THEN "Failed"
  ELSE IF ret[p] = "nil" THEN "Complete"
  ELSE IF pc[p] = "write" THEN "Sending"
  ELSE IF pc[p] \in {"hdr", "body"} THEN "AwaitingPeer"
  ELSE IF pc[p] = "crashed" THEN "Crashed"
  ELSE "Idle"

\* the order in which the phases of one exchange follow each other
PhaseOrder(p) ==
  IF p = "cli"
  THEN {<<"Idle", "Sending">>, <<"Sending", "AwaitingPeer">>,
        <<"AwaitingPeer", "Complete">>}
  ELSE {<<"Idle", "AwaitingPeer">>, <<"AwaitingPeer", "Sending">>,
        <<"Sending", "Complete">>}

\* a is the front of b
IsPrefix(a, b) == Len(a) <= Len(b) /\ a = SubSeq(b, 1, Len(a))

\* the frame the exchange of p has to write
OwnFrame(p) == IF p = "srv" THEN Frame(reply) ELSE Frame(text[p])

WroteAll(p) ==
  /\ wcalls[p] # << >>
  /\ pc[p] \notin {"write", "crashed"}
  /\ ret[p] \notin {"write", "write0"}

\* C12: end to end, client connected to server. For the request "PING" the
\* client writes exactly 04 00 00 00 50 49 4E 47; the server decodes "PING";
\* its response to every valid request is the frame of the 13 bytes
\* "Hello world!!"; the client decodes exactly that body.
C12_EndToEnd ==
  LET hello == <<72, 101, 108, 108, 111, 32, 119, 111, 114, 108, 100, 33, 33>>
  IN /\ (text["cli"] = <<80, 73, 78, 71>> /\ WroteAll("cli"))
          => sent["cli"] = <<4, 0, 0, 0, 80, 73, 78, 71>>
     /\ (text["cli"] = <<80, 73, 78, 71>> /\ msg["srv"] # NoMsg)
          => msg["srv"] = <<80, 73, 78, 71>>
     /\ (msg["srv"] # NoMsg /\ pc["srv"] # "crashed")
          => wbuf["srv"] = <<13, 0, 0, 0>> \o hello
     /\ WroteAll("srv") => sent["srv"] = <<13, 0, 0, 0>> \o hello
     /\ msg["cli"] # NoMsg => (msg["cli"] = hello /\ Len(msg["cli"]) = 13)

C12_Witness ==
  /\ text["cli"] = PING
  /\ sent["cli"] = <<4, 0, 0, 0, 80, 73, 78, 71>>
  /\ msg["srv"] = PING
  /\ msg["cli"] = reply
  /\ pc["cli"] = "done"
  /\ closes["srv"] = 1

\* C13: a frame of declared length 0 is valid. Once the header has decoded
\* to 0 the decode has succeeded with the empty message, no read was issued
\* for the body and 4 bytes were consumed; the server goes on to write its
\* response as for any other request.
C13_ZeroLength ==
  \A p \in Procs :
    length[p] = [lo |-> 0, hi |-> 0]
      => /\ msg[p] = << >>
         /\ \A i \in DOMAIN rcalls[p] : rcalls[p][i].at = "hdr"
         /\ Consumed(p) = 4
         /\ ret[p] \notin {"eof", "read", "toolong"}
         /\ p = "srv" =>
              /\ pc[p] \notin {"hdr", "body"}
              /\ "says" \in log[p]
              /\ wbuf[p] = Frame(reply)
              /\ IsPrefix(sent[p], Frame(reply))
         /\ p = "cli" => (ret[p] = "nil" /\ pc[p] \in {"close", "done"})

C13_Witness ==
  /\ wire["srv"] = <<0, 0, 0, 0>>
  /\ length["srv"] = [lo |-> 0, hi |-> 0]
  /\ msg["srv"] = << >>
  /\ sent["srv"] = Frame(reply)
  /\ ret["srv"] = "nil"

\* C14: the server handles its accepted endpoints one at a time. It accepts
\* a connection only when no exchange is running and the endpoint accepted
\* before has been closed; an exchange reads and writes only the endpoint
\* accepted last, while that endpoint is open.
C14_OneAtATime ==
  [][/\ conns' # conns =>
          /\ conns' = conns + 1
          /\ pc["srv"] = "accept"
          /\ conns > 0 => (closes["srv"] = 1 /\ ret["srv"] # "running")
          /\ closes'["srv"] = 0
          /\ rcalls'["srv"] = << >> /\ wcalls'["srv"] = << >>
     /\ (conns' = conns
           /\ (rcalls'["srv"] # rcalls["srv"] \/ wcalls'["srv"] # wcalls["srv"]))
          => (conns > 0 /\ closes["srv"] = 0 /\ closes'["srv"] = 0)]_vars

C14_Witness ==
  /\ conns = 2
  /\ closes["srv"] = 0
  /\ wcalls["srv"] # << >>

\* C15: read_full returns the end-of-stream error only when the peer has
\* closed the stream before supplying all requested bytes; never while
\* bytes of the frame are still to be delivered.
C15_EofOnlyOnClose ==
  \A p \in Procs :
    ret[p] = "eof" => (eof[p] /\ inq[p] = << >>)

\* C16: a conforming client (request of at most 4096 bytes) and the server,
\* over a transport that reports no error and closes nothing early but may
\* split reads and writes into chunks of at least 1 byte: the exchange
\* completes on both sides. Its part that a finite run refutes: no such run
\* has an exchange that failed or a process that stopped inside it.
C16_NoFailedRun ==
  (/\ Len(text["cli"]) <= kMaxMsg
   /\ \A e \in Endpoints : ~fault[e]
   /\ pc["srv"] # "exited" /\ pc["cli"] # "exited")
    => \A p \in Procs : ret[p] \in {"running", "nil"} /\ pc[p] # "crashed"

\* C17: the server writes no byte to an endpoint unless it has decoded a
\* complete valid request frame from it (a header of at most 4096 and all
\* the body bytes it declares); after a decode failure it has written 0
\* bytes.
C17_NoWriteBeforeDecode ==
  /\ (sent["srv"] # << >> \/ wcalls["srv"] # << >> \/ pc["srv"] = "write")
       => /\ length["srv"] # NoLen
          /\ ~Above4096(length["srv"])
          /\ Consumed("srv") = 4 + ToInt(length["srv"])
          /\ msg["srv"] = SubSeq(wire["srv"], 5, 4 + ToInt(length["srv"]))
          /\ Uint32(wire["srv"]) = length["srv"]
  /\ (msg["srv"] = NoMsg \/ ret["srv"] \in {"eof", "read", "toolong"})
       => (sent["srv"] = << >> /\ wcalls["srv"] = << >>)

C17_Witness ==
  /\ wire["srv"] = Frame(reply) \o <<7, 7>>
  /\ msg["srv"] = reply
  /\ sent["srv"] = Frame(reply)
  /\ ret["srv"] = "nil"

\* C18: read_full and write_full do not retry. A call that reported an
\* error or 0 bytes is the last call of its kind on the endpoint, the
\* exchange has returned that error and issues no call of the other kind
\* either; the bytes sent are the front of the buffer, each once, and the
\* bytes read are the front of the stream, each once.
C18_NoRetry ==
  \A p \in Procs :
    /\ \A i \in DOMAIN rcalls[p] :
         rcalls[p][i].n <= 0
           => /\ i = Len(rcalls[p])
              /\ ret[p] = (IF rcalls[p][i].n = 0 THEN "eof" ELSE "read")
              /\ pc[p] \notin {"hdr", "body", "write", "crashed"}
              /\ p = "srv" => wcalls[p] = << >>
    /\ \A i \in DOMAIN wcalls[p] :
         wcalls[p][i].n <= 0
           => /\ i = Len(wcalls[p])
              /\ ret[p] = (IF wcalls[p][i].n = 0 THEN "write0" ELSE "write")
              /\ pc[p] \notin {"hdr", "body", "write", "crashed"}
              /\ p = "cli" => rcalls[p] = << >>
    /\ Len(sent[p]) = Moved(wcalls[p])
    /\ IsPrefix(sent[p], OwnFrame(p))
    /\ run # "e2e" => inq[p] = Drop(wire[p], Consumed(p))

C18_Witness ==
  /\ Len(rcalls["srv"]) = 2
  /\ rcalls["srv"][1].n = 1
  /\ rcalls["srv"][2].n = -1
  /\ ret["srv"] = "read"
  /\ pc["srv"] = "accept"
  /\ inq["srv"] = Drop(Frame(PING), 1)

\* C19: the 4 header bytes b0..b3 decode to the unsigned 32-bit value
\* b0 + 256*b1 + 65536*b2 + 16777216*b3 (here low + 65536*high with
\* low = b0 + 256*b1 and high = b2 + 256*b3), and the bound check is
\* unsigned: every value in 4097..2^32-1 is rejected as too long, every
\* value in 0..4096 is accepted.
C19_UnsignedBound ==
  \A p \in Procs :
    length[p] # NoLen =>
      LET low == At(rbuf[p], 1) + 256 * At(rbuf[p], 2)
          high == At(rbuf[p], 3) + 256 * At(rbuf[p], 4)
      IN /\ length[p] = [lo |-> low, hi |-> high]
         /\ (high > 0 \/ low > 4096)
              => (ret[p] = "toolong" /\ "too long" \in log[p]
                  /\ pc[p] = "close" /\ msg[p] = NoMsg)
         /\ (high = 0 /\ low <= 4096)
              => /\ ret[p] # "toolong"
                 /\ "too long" \notin log[p]
                 /\ low > 0 => (pc[p] = "body" /\ len[p] = low
                                /\ offset[p] = 0)
                 /\ low = 0 => msg[p] = << >>

C19_Witness ==
  /\ run = "header"
  /\ rbuf["srv"] = <<255, 255, 255, 255>>
  /\ ret["srv"] = "toolong"
  /\ length["cli"] = [lo |-> 65535, hi |-> 65535]

\* one_request on one connection, computed from that connection alone: its
\* stream q and the results rc, wc of its read and write calls, starting
\* from the locals one_request declares
ReplayRead(l, q, n) ==
  IF n > 0 THEN ReadGot("srv", l, SubSeq(q, 1, n))
  ELSE ReadErr("srv",
               [l EXCEPT !.rcalls = Append(@, [at |-> l.pc, lo |-> l.offset,
                                               hi |-> l.len, n |-> n])],
               IF n = 0 THEN "eof" ELSE "read")

RECURSIVE ReplayReads(_, _, _)
ReplayReads(l, q, rc) ==
  IF rc = << >> THEN l
  ELSE ReplayReads(ReplayRead(l, q, rc[1].n),
                   IF rc[1].n > 0 THEN Drop(q, rc[1].n) ELSE q, Tail(rc))

ReplayWrite(l, n) ==
  IF n > 0 THEN WriteGot("srv", l, n)
  ELSE WriteErr("srv",
                [l EXCEPT !.wcalls = Append(@, [lo |-> l.woffset,
                                                hi |-> l.total, n |-> n])],
                IF n = 0 THEN "write0" ELSE "write")

RECURSIVE ReplayWrites(_, _)
ReplayWrites(l, wc) ==
  IF wc = << >> THEN l ELSE ReplayWrites(ReplayWrite(l, wc[1].n), Tail(wc))

Replay(q, rc, wc) ==
  ReplayWrites(ReplayReads([Fresh("hdr") EXCEPT !.len = 4], q, rc), wc)

\* what an exchange came to: message or error, what it printed, the calls
\* it made and the bytes it wrote
Outcome(l) ==
  [msg |-> l.msg, ret |-> l.ret, log |-> l.log, length |-> l.length,
   rcalls |-> l.rcalls, wcalls |-> l.wcalls,
   sent |-> SubSeq(l.wbuf, 1, Moved(l.wcalls)), pc |-> l.pc]

\* C20: no state is carried from one exchange to the next. The outcome of
\* every exchange of the server (message or error, what it printed, bytes
\* written) is the one computed from its own connection's bytes and
\* transport events alone, whatever the connections before it did.
C20_NoCarriedState ==
  (run = "server" /\ conns > 0) =>
    Outcome(Replay(wire["srv"], rcalls["srv"], wcalls["srv"]))
      = [Outcome(Cur("srv")) EXCEPT
           !.sent = sent["srv"],
           !.pc = IF pc["srv"] \in {"accept", "exited"} THEN "close"
                  ELSE pc["srv"]]

C20_Witness ==
  /\ run = "server"
  /\ conns = 2
  /\ msg["srv"] = PING
  /\ ret["srv"] = "nil"
  /\ pc["srv"] = "accept"

\* C21: in read_full and write_full the slice handed to the underlying call
\* has, on every iteration and for every sequence of partial transfer
\* sizes, a start not above its end and is not empty; no slice-bounds
\* panic is reachable.
C21_SliceInBounds ==
  \A p \in Procs :
    /\ pc[p] # "crashed"
    /\ pc[p] \in {"hdr", "body"} => offset[p] < len[p]
    /\ pc[p] = "write" => woffset[p] < total[p]
    /\ \A i \in DOMAIN rcalls[p] : rcalls[p][i].lo < rcalls[p][i].hi
    /\ \A i \in DOMAIN wcalls[p] : wcalls[p][i].lo < wcalls[p][i].hi

\* calls read_full has issued for the header (at = "hdr") or the body
CallsAt(p, at) == Cardinality({i \in DOMAIN rcalls[p] : rcalls[p][i].at = at})

\* C22: read_full and write_full terminate whenever each underlying call
\* returns. Every iteration either returns or lowers the remaining count
\* by at least 1, the remaining count never goes below 0, and a call for n
\* bytes issues at most n underlying calls.
C22_BoundedCalls ==
  /\ [](\A p \in Procs :
          /\ len[p] >= 0 /\ total[p] >= 0
          /\ CallsAt(p, "hdr") <= 4
          /\ CallsAt(p, "body") <=
               (IF length[p] = NoLen \/ Above4096(length[p]) THEN 0
                ELSE ToInt(length[p]))
          /\ Len(wcalls[p]) <= Len(wbuf[p]))
  /\ [][\A p \in Procs :
          /\ Len(rcalls[p]') = Len(rcalls[p]) + 1
               => (pc[p]' # pc[p] \/ len[p]' <= len[p] - 1)
          /\ Len(wcalls[p]') = Len(wcalls[p]) + 1
               => (pc[p]' # pc[p] \/ total[p]' <= total[p] - 1)]_vars

C22_Witness ==
  /\ CallsAt("srv", "hdr") = 3
  /\ rcalls["srv"][1].n = 1
  /\ rcalls["srv"][2].n = 1
  /\ pc["srv"] = "close"

\* C23: for every accepted declared length L in 0..4096 the body region
\* [4, 4+L) lies inside the receive buffer of the exchange (4+4096 bytes
\* in the server, 4+4096+1 in the client); every received body byte is
\* stored inside that region, every header byte inside [0, 4), and the 4
\* header bytes stay as they were decoded.
C23_BodyInsideBuffer ==
  \A p \in Procs :
    LET size == IF p = "srv" THEN 4 + 4096 ELSE 4 + 4096 + 1
        accepted == length[p] # NoLen /\ ~Above4096(length[p])
    IN /\ Len(rbuf[p]) <= size
       /\ rbuf[p] = SubSeq(wire[p], 1, Consumed(p))
       /\ \A i \in DOMAIN rcalls[p] :
            (rcalls[p][i].at = "hdr" /\ rcalls[p][i].n > 0)
              => (rcalls[p][i].lo >= 0
                  /\ rcalls[p][i].lo + rcalls[p][i].n <= 4)
       /\ ~accepted =>
            /\ Len(rbuf[p]) <= 4
            /\ \A i \in DOMAIN rcalls[p] : rcalls[p][i].at = "hdr"
       /\ accepted =>
            /\ 4 + ToInt(length[p]) <= size
            /\ Len(rbuf[p]) <= 4 + ToInt(length[p])
            /\ Uint32(SubSeq(rbuf[p], 1, 4)) = length[p]
            /\ \A i \in DOMAIN rcalls[p] :
                 (rcalls[p][i].at = "body" /\ rcalls[p][i].n > 0)
                   => (rcalls[p][i].lo >= 0
                       /\ rcalls[p][i].lo + rcalls[p][i].n
                            <= ToInt(length[p]))

C23_Witness ==
  /\ length["srv"] = [lo |-> kMaxMsg, hi |-> 0]
  /\ Len(rbuf["srv"]) = 4 + kMaxMsg
  /\ msg["srv"] = LongText(kMaxMsg)
  /\ CallsAt("srv", "body") = 1

====
